---- MODULE Spec2Model ----
(***************************************************************************)
(* WhistleSpace: the content moderation pipeline (utils/moderateFeedback)  *)
(* and the progressive user-enforcement handlers (utils/notifications,     *)
(* controller/feedback.controller, controller/auth.controller).            *)
(*                                                                         *)
(* The repository holds several snapshots of the same files.  A snapshot   *)
(* is chosen in the initial state and never changes:                       *)
(*   variant  - which moderateFeedback is deployed                         *)
(*   snapshot - which user store / violation handler is deployed           *)
(* Time is counted in hours.                                               *)
(***************************************************************************)
EXTENDS Integers, Sequences, FiniteSets, TLC

VARIABLES
    \* ---- moderation pipeline (one invocation of moderateFeedback) ----
    variant,      \* "pipeline" | "chain" | "openaiOnly"
    cfg,          \* [persp |-> BOOLEAN, openai |-> BOOLEAN]: API keys present
    text,         \* the submitted text, a sequence of characters
    mpc,          \* "start" | "awaitPerspective" | "awaitOpenAI" | "done",
                  \* or "raised" when moderateFeedback threw to its caller
    calls,        \* adapters invoked so far, in order
    outcomes,     \* how each invoked adapter ended: "flagged" | "clean" | "error"
    responses,    \* what each invoked adapter got from its provider
    ruleRan,      \* ruleBasedModeration has been run in this invocation
    verdict,      \* the returned verdict (NoVerdict until done)
    \* ---- enforcement ----
    snapshot,     \* "User" (utils/notifications) | "Admin" (feedback/auth controller)
    now,          \* the clock, in hours
    doc,          \* the stored user document
    log,          \* results of the operations completed so far, in order
    adminAlerts,  \* admin alert mails sent by notifyAdminsOfViolation
    doc0,         \* the stored user document in the initial state
    procs,        \* concurrent handler invocations: document read, position
    \* ---- HTTP requests ----
    feedbacks,    \* number of stored Feedback documents
    reqCount,     \* requests answered so far
    lastReq,      \* the last request answered: what was asked, what was done
    \* ---- admin session ----
    admin,        \* routes/admin.routes: the stored refresh token, the tokens
                  \* issued, the clock in seconds, the last request answered
    client        \* api/axios: the request in flight, localStorage, the cookie

modVars == <<variant, cfg, text, mpc, calls, outcomes, responses, ruleRan, verdict>>
enfVars == <<snapshot, now, doc, log, adminAlerts, doc0, procs>>
reqVars == <<feedbacks, reqCount, lastReq, admin, client>>
vars == <<variant, cfg, text, mpc, calls, outcomes, responses, ruleRan, verdict,
          snapshot, now, doc, log, adminAlerts, doc0, procs,
          feedbacks, reqCount, lastReq, admin, client>>

(***************************************************************************)
(* Bounds of the model                                                     *)
(***************************************************************************)
MaxLen == 3          \* every text over Alphabet up to this length is an input

MaxOps == 5          \* operations on the user document in one behaviour
MaxTime == 24        \* the clock stops here
TickHours == 12      \* granularity of the clock
NumProcs == 2        \* concurrent handler invocations for the one user
PriorCalls == 3      \* handler calls completed before the concurrent ones start

(***************************************************************************)
(* Characters and strings                                                  *)
(***************************************************************************)
UpperSeq == <<"A","B","C","D","E","F","G","H","I","J","K","L","M",
              "N","O","P","Q","R","S","T","U","V","W","X","Y","Z">>
LowerSeq == <<"a","b","c","d","e","f","g","h","i","j","k","l","m",
              "n","o","p","q","r","s","t","u","v","w","x","y","z">>
UpperChars == {UpperSeq[i] : i \in 1..Len(UpperSeq)}
LowerChars == {LowerSeq[i] : i \in 1..Len(LowerSeq)}
DigitChars == {"0","1","2","3","4","5","6","7","8","9"}
WordChars == UpperChars \cup LowerChars \cup DigitChars \cup {"_"}
WhitespaceChars == {" ", "\t", "\n", "\r"}
LineTerminators == {"\n", "\r"}

\* String.prototype.toLowerCase on one character
LowerChar(c) ==
    IF c \in UpperChars
    THEN LowerSeq[CHOOSE i \in 1..Len(UpperSeq) : UpperSeq[i] = c]
    ELSE c

\* text.toLowerCase().includes(w)
lowerIncludes(s, w) ==
    \E i \in 1..(Len(s) - Len(w) + 1) :
        \A k \in 1..Len(w) : LowerChar(s[i + k - 1]) = w[k]

\* !text || text.trim().length === 0
IsBlank(s) == \A i \in 1..Len(s) : s[i] \in WhitespaceChars

(***************************************************************************)
(* Local rule filter: ruleBasedModeration                                  *)
(***************************************************************************)
RepeatRun == 6         \* /(.)\1{5,}/
CapsRun == 15          \* /[A-Z]{15,}/
DigitRun == 10         \* /\b\d{10,}\b/
ChunkMax == 3          \* /(.{1,3})\1{4,}/ : chunk of 1..3 characters
ChunkRepeats == 5      \* /(.{1,3})\1{4,}/ : the chunk, 5 or more times
SpamRun == 9           \* /(.)\1{8,}/
MaxTextLength == 2000  \* text.length > 2000

BadWordsPipeline ==
    { <<"s","p","a","m">>, <<"s","c","a","m">>, <<"h","a","t","e">>,
      <<"a","b","u","s","e">>, <<"t","h","r","e","a","t">>,
      <<"v","i","o","l","e","n","c","e">>, <<"d","i","e">>,
      <<"s","t","u","p","i","d">>, <<"i","d","i","o","t">>,
      <<"m","o","r","o","n">>, <<"l","o","s","e","r">>, <<"u","g","l","y">>,
      <<"f","a","t">>, <<"r","a","c","i","s","t">> }

BadWordsChain == BadWordsPipeline \cup { <<"k","i","l","l">> }

badWords(v) == IF v = "chain" THEN BadWordsChain ELSE BadWordsPipeline

\* the regular expression (.)\1{n-1,} : n or more times the same character
HasCharRun(s, n) ==
    \E i \in 1..(Len(s) - n + 1) :
        /\ s[i] \notin LineTerminators
        /\ \A j \in i..(i + n - 1) : s[j] = s[i]

\* [A-Z]{15,}
HasCapsRun(s) ==
    \E i \in 1..(Len(s) - CapsRun + 1) :
        \A j \in i..(i + CapsRun - 1) : s[j] \in UpperChars

\* \b at the gap before position i (1..Len(s)+1)
WordBoundary(s, i) ==
    LET before == i > 1 /\ s[i - 1] \in WordChars
        after == i <= Len(s) /\ s[i] \in WordChars
    IN before # after

\* \b\d{10,}\b
HasLongNumber(s) ==
    \E i \in 1..(Len(s) - DigitRun + 1) :
        /\ s[i] \in DigitChars
        /\ WordBoundary(s, i)
        /\ \E j \in (i + DigitRun - 1)..Len(s) :
              /\ WordBoundary(s, j + 1)
              /\ \A k \in i..j : s[k] \in DigitChars

\* (.{1,3})\1{4,}
HasRepeatedChunk(s) ==
    \E k \in 1..ChunkMax : \E i \in 1..(Len(s) - k * ChunkRepeats + 1) :
        /\ \A j \in i..(i + k - 1) : s[j] \notin LineTerminators
        /\ \A j \in i..(i + k * (ChunkRepeats - 1) - 1) : s[j + k] = s[j]

containsBadWords(s, words) == \E w \in words : lowerIncludes(s, w)

containsSuspicious(s) ==
    \/ HasCharRun(s, RepeatRun)
    \/ HasCapsRun(s)
    \/ HasLongNumber(s)
    \/ HasRepeatedChunk(s)

ruleFlagged(s, words) ==
    \/ containsBadWords(s, words)
    \/ containsSuspicious(s)
    \/ Len(s) > MaxTextLength
    \/ HasCharRun(s, SpamRun)

ruleBasedModeration(s, words) ==
    [ flagged |-> ruleFlagged(s, words),
      provider |-> "Rule-based Filter",
      reason |-> IF ruleFlagged(s, words)
                 THEN "Content flagged by automated rules" ELSE "Clean" ]

(***************************************************************************)
(* Classifier adapters.  A call ends with an HTTP response or with an      *)
(* error (timeout of the axios client, transport failure).  Scores are in  *)
(* hundredths.                                                             *)
(***************************************************************************)
Threshold == 50        \* > 0.5
ToxicityChain == 70    \* > 0.7 for TOXICITY in the chain variant

ScoreValues == {0, Threshold, Threshold + 1, ToxicityChain + 1}
PerspectiveResponses ==
    [status : {"ok"}, tox : ScoreValues, severe : ScoreValues, threat : ScoreValues]
PerspectiveFailure == [status |-> "error", tox |-> 0, severe |-> 0, threat |-> 0]
\* "missing": a body without results; "empty": results is an empty array
OpenAIResponses == {"flagged", "clean", "missing", "empty"}
AdapterError == [kind |-> "error", flagged |-> FALSE, provider |-> "none",
                 reason |-> "error"]

Verdict(flagged, provider, reason) ==
    [kind |-> "verdict", flagged |-> flagged, provider |-> provider,
     reason |-> reason]

\* an adapter that flags a score of exactly the threshold
perspectiveFlaggedAtThreshold(v, r) ==
    IF v = "chain"
    THEN r.tox >= ToxicityChain \/ r.severe >= Threshold
    ELSE r.tox >= Threshold \/ r.severe >= Threshold \/ r.threat >= Threshold

perspectiveFlagged(v, r) ==
    IF v = "chain"
    THEN r.tox > ToxicityChain \/ r.severe > Threshold
    ELSE r.tox > Threshold \/ r.severe > Threshold \/ r.threat > Threshold

\* perspectiveModeration: r is the HTTP response, or the failure of the call
perspectiveModeration(v, c, r) ==
    IF ~c.persp \/ r.status = "error" THEN AdapterError
    ELSE Verdict(perspectiveFlagged(v, r), "Perspective API",
                 IF perspectiveFlagged(v, r)
                 THEN "High toxicity detected by Perspective AI" ELSE "Clean")

\* openAIModeration: a response without results[0] is read as unflagged by the
\* pipeline variant and raises a TypeError in the chain variant
openAIModeration(v, c, r) ==
    IF ~c.openai \/ r = "error" THEN AdapterError
    ELSE IF r \in {"missing", "empty"}
         THEN IF v = "chain" THEN AdapterError
              ELSE Verdict(FALSE, "OpenAI", "Clean")
    ELSE Verdict(r = "flagged", "OpenAI",
                 IF r = "flagged"
                 THEN "Content flagged by OpenAI moderation" ELSE "Clean")

(***************************************************************************)
(* moderateFeedback                                                        *)
(***************************************************************************)
NoVerdict == [flagged |-> FALSE, provider |-> "none", reason |-> "pending"]
EmptyVerdict ==
    [flagged |-> FALSE, provider |-> "validation", reason |-> "Empty text"]
RuleOnlyVerdict ==
    [flagged |-> FALSE, provider |-> "Rule-based only", reason |-> "Clean"]
CleanVerdict == [flagged |-> FALSE, provider |-> "All", reason |-> "Clean"]

Strip(r) == [flagged |-> r.flagged, provider |-> r.provider, reason |-> r.reason]

\* provider selection that does not look at the credentials
primaryProviderIgnoringKeys(c) == "Perspective"

\* the opposite preference order: OpenAI before Perspective
primaryProviderOpenAIFirst(c) ==
    IF c.openai THEN "OpenAI" ELSE IF c.persp THEN "Perspective" ELSE "none"

primaryProvider(c) ==
    IF c.persp THEN "Perspective" ELSE IF c.openai THEN "OpenAI" ELSE "none"

secondaryProvider(c) ==
    IF c.persp /\ c.openai
    THEN IF primaryProvider(c) = "Perspective" THEN "OpenAI" ELSE "Perspective"
    ELSE "none"

\* A step of moderateFeedback ends by returning a verdict or by awaiting an
\* adapter: [op |-> "return", verdict, rule] or [op |-> "call", adapter, rule],
\* rule telling whether the step ran ruleBasedModeration.
Return(vd, rule) == [op |-> "return", verdict |-> vd, adapter |-> "none", rule |-> rule]
Call(a, rule) == [op |-> "call", verdict |-> NoVerdict, adapter |-> a, rule |-> rule]
\* the step ends by throwing to the caller of moderateFeedback
Throw == [op |-> "throw", verdict |-> NoVerdict, adapter |-> "none", rule |-> FALSE]

\* moderateFeedback entered without the early return for blank text
pipelineStartNoBlankCheck(c, s) ==
    IF ruleBasedModeration(s, BadWordsPipeline).flagged
    THEN Return(ruleBasedModeration(s, BadWordsPipeline), TRUE)
    ELSE IF primaryProvider(c) = "none" THEN Return(RuleOnlyVerdict, TRUE)
    ELSE Call(primaryProvider(c), TRUE)

\* moderateFeedback (pipeline), up to the first await
pipelineStart(c, s) ==
    IF Len(s) = 0 \/ IsBlank(s) THEN Return(EmptyVerdict, FALSE)
    ELSE IF ruleBasedModeration(s, BadWordsPipeline).flagged
         THEN Return(ruleBasedModeration(s, BadWordsPipeline), TRUE)
    ELSE IF primaryProvider(c) = "none" THEN Return(RuleOnlyVerdict, TRUE)
    ELSE Call(primaryProvider(c), TRUE)

\* a failed primary call retried once before anything else
pipelineAfterPrimaryRetry(c, r) ==
    IF r.kind = "verdict"
    THEN IF r.flagged THEN Return(Strip(r), FALSE) ELSE Return(CleanVerdict, FALSE)
    ELSE Call(primaryProvider(c), FALSE)

\* the "always try both" policy: a clean primary verdict is double-checked
pipelineAfterPrimaryDoubleCheck(c, r) ==
    IF r.kind = "verdict" /\ r.flagged THEN Return(Strip(r), FALSE)
    ELSE IF secondaryProvider(c) # "none"
         THEN Call(secondaryProvider(c), FALSE)
         ELSE Return(CleanVerdict, FALSE)

\* moderateFeedback (pipeline), after the primary provider's call ended with r
pipelineAfterPrimary(c, r) ==
    IF r.kind = "verdict"
    THEN IF r.flagged THEN Return(Strip(r), FALSE) ELSE Return(CleanVerdict, FALSE)
    ELSE IF secondaryProvider(c) # "none"
         THEN Call(secondaryProvider(c), FALSE)
         ELSE Return(CleanVerdict, FALSE)

\* moderateFeedback (pipeline), after the secondary provider's call ended with r
pipelineAfterSecondary(c, r) ==
    IF r.kind = "verdict" /\ r.flagged
    THEN Return(Strip(r), FALSE)
    ELSE Return(CleanVerdict, FALSE)

\* moderateFeedback (fallback chain), the last resort
chainRuleBased(s) == Return(ruleBasedModeration(s, BadWordsChain), TRUE)

\* moderateFeedback (fallback chain), from the OpenAI step on
chainOpenAI(c, s) ==
    IF c.openai THEN Call("OpenAI", FALSE) ELSE chainRuleBased(s)

\* moderateFeedback (fallback chain), up to the first await
chainStart(c, s) ==
    IF Len(s) = 0 \/ IsBlank(s) THEN Return(EmptyVerdict, FALSE)
    ELSE IF c.persp THEN Call("Perspective", FALSE)
    ELSE chainOpenAI(c, s)

\* moderateFeedback (fallback chain), after perspectiveModeration ended with r
chainAfterPerspective(c, s, r) ==
    IF r.kind = "verdict" THEN Return(Strip(r), FALSE) ELSE chainOpenAI(c, s)

\* moderateFeedback (fallback chain), after openAIModeration ended with r
chainAfterOpenAI(s, r) ==
    IF r.kind = "verdict" THEN Return(Strip(r), FALSE) ELSE chainRuleBased(s)

\* moderateFeedback (OpenAI only): { flagged: false }, returned when the request
\* failed, and the value of results[0] of an empty results array
FailOpenVerdict == [flagged |-> FALSE, provider |-> "none", reason |-> "none"]
UndefinedResult == [flagged |-> FALSE, provider |-> "none", reason |-> "undefined"]

\* moderateFeedback (OpenAI only): axios.post and response.data.results[0]
openAIOnlyRequest(r) ==
    IF r \in {"error", "missing"} THEN AdapterError
    ELSE IF r = "empty" THEN Verdict(FALSE, "none", "undefined")
    ELSE Verdict(r = "flagged", "none", "none")

\* moderateFeedback (OpenAI only), up to the await
openAIOnlyStart(c) == IF ~c.openai THEN Throw ELSE Call("OpenAI", FALSE)

\* moderateFeedback (OpenAI only), after the request ended with r
openAIOnlyAfter(r) ==
    IF r.kind = "error" THEN Return(FailOpenVerdict, FALSE)
    ELSE Return(Strip(r), FALSE)

\* the continuation of moderateFeedback after the adapter it awaited ended with r
afterAdapter(v, c, s, attempt, awaited, r) ==
    IF v = "pipeline"
    THEN IF attempt = 1 THEN pipelineAfterPrimary(c, r)
         ELSE pipelineAfterSecondary(c, r)
    ELSE IF v = "openaiOnly" THEN openAIOnlyAfter(r)
    ELSE IF awaited = "Perspective" THEN chainAfterPerspective(c, s, r)
         ELSE chainAfterOpenAI(s, r)

moderateStart(v, c, s) ==
    IF v = "pipeline" THEN pipelineStart(c, s)
    ELSE IF v = "openaiOnly" THEN openAIOnlyStart(c)
    ELSE chainStart(c, s)

Outcome(r) == IF r.kind = "error" THEN "error"
              ELSE IF r.flagged THEN "flagged" ELSE "clean"

\* the state after a step of moderateFeedback that ended with st
Continue(st) ==
    /\ ruleRan' = (ruleRan \/ st.rule)
    /\ IF st.op = "return"
       THEN /\ mpc' = "done"
            /\ verdict' = st.verdict
            /\ calls' = calls
       ELSE IF st.op = "throw"
       THEN /\ mpc' = "raised"
            /\ verdict' = verdict
            /\ calls' = calls
       ELSE /\ mpc' = IF st.adapter = "Perspective"
                      THEN "awaitPerspective" ELSE "awaitOpenAI"
            /\ verdict' = verdict
            /\ calls' = Append(calls, st.adapter)

ModerateFeedback ==
    /\ mpc = "start"
    /\ Continue(moderateStart(variant, cfg, text))
    /\ UNCHANGED <<variant, cfg, text, outcomes, responses>>
    /\ UNCHANGED <<enfVars, reqVars>>

PerspectiveReturns ==
    /\ mpc = "awaitPerspective"
    /\ \E r \in PerspectiveResponses \cup {PerspectiveFailure} :
         LET res == perspectiveModeration(variant, cfg, r) IN
         /\ outcomes' = Append(outcomes, Outcome(res))
         /\ responses' = Append(responses, [adapter |-> "Perspective", body |-> r])
         /\ Continue(afterAdapter(variant, cfg, text, Len(calls), "Perspective", res))
    /\ UNCHANGED <<variant, cfg, text>>
    /\ UNCHANGED <<enfVars, reqVars>>

OpenAIReturns ==
    /\ mpc = "awaitOpenAI"
    /\ \E r \in OpenAIResponses \cup {"error"} :
         LET res == IF variant = "openaiOnly" THEN openAIOnlyRequest(r)
                    ELSE openAIModeration(variant, cfg, r) IN
         /\ outcomes' = Append(outcomes, Outcome(res))
         /\ responses' = Append(responses, [adapter |-> "OpenAI", body |-> r])
         /\ Continue(afterAdapter(variant, cfg, text, Len(calls), "OpenAI", res))
    /\ UNCHANGED <<variant, cfg, text>>
    /\ UNCHANGED <<enfVars, reqVars>>

(***************************************************************************)
(* Inputs of the moderation pipeline                                       *)
(***************************************************************************)
Alphabet == {"d", "i", "e", "D", " ", "1"}
Rep(n, c) == [i \in 1..n |-> c]
Cycle(n, w) == [i \in 1..n |-> w[((i - 1) % Len(w)) + 1]]
ExtraTexts ==
    { Rep(RepeatRun, "e"), Rep(RepeatRun - 1, "e"),
      Rep(SpamRun, "!"),
      SubSeq(UpperSeq, 1, CapsRun), SubSeq(UpperSeq, 1, CapsRun - 1),
      Cycle(DigitRun, <<"1", "2", "3">>) \o <<"4">>,
      <<"x">> \o Cycle(DigitRun, <<"1", "2", "3">>) \o <<"4">>,
      Cycle(2 * ChunkRepeats, <<"a", "b">>),
      Cycle(2 * ChunkRepeats - 1, <<"a", "b">>),
      Cycle(MaxTextLength + 1, <<"a", "b", "c", "d", "e">>),
      Cycle(MaxTextLength, <<"a", "b", "c", "d", "e">>),
      <<"\t", "\n">>,
      <<"I", " ">> \o <<"H","a","T","e">> \o <<" ", "i", "t">>,
      <<"s","k","i","l","l","s">>,
      <<"g","r","e","a","t"," ","j","o","b">> }
Texts == UNION {[1..n -> Alphabet] : n \in 0..MaxLen} \cup ExtraTexts
Configs == [persp : BOOLEAN, openai : BOOLEAN]
Variants == {"pipeline", "chain"}
AllVariants == Variants \cup {"openaiOnly"}

(***************************************************************************)
(* The stored user document (User.model in the notifications snapshot,     *)
(* Admin.model in the controller snapshot).  banUntil is <<>> for null     *)
(* and <<t>> for the date t.                                               *)
(***************************************************************************)
NoBan == <<>>
FreshUser ==
    [warnings |-> 0, banUntil |-> NoBan, flagHistory |-> <<>>,
     notifications |-> <<>>]

\* user.banUntil && user.banUntil > new Date()
isBanned(d, t) == d.banUntil # NoBan /\ d.banUntil[1] > t

\* user.addFlag(reason, text, actionTaken): appends one flag entry
addFlag(d, action) == [d EXCEPT !.flagHistory = Append(@, action)]

\* user.save(): Mongoose writes the modified paths of the local document l,
\* read as o, onto the stored document st: assigned scalars are $set, entries
\* pushed on an array are $push-ed
save(st, o, l, banSet) ==
    [st EXCEPT !.warnings = l.warnings,
               !.banUntil = IF banSet THEN l.banUntil ELSE @,
               !.flagHistory = @ \o SubSeq(l.flagHistory, Len(o.flagHistory) + 1,
                                          Len(l.flagHistory))]

(***************************************************************************)
(* utils/notifications: handleUserWarning                                  *)
(***************************************************************************)
BanAtWarnings == 4     \* warningCount >= 4
FinalWarningAt == 3    \* warningCount === 3
AdminAlertFrom == 3    \* if (warningCount >= 3) notifyAdminsOfViolation
UserBanHours == 24     \* banUntil.setHours(banUntil.getHours() + 24)

\* warningCount = user.warnings after the increment
uwWarningCount(o) == o.warnings + 1

\* the ban issued one warning early, at the final warning
uwBansAtFinalWarning(o) == uwWarningCount(o) >= FinalWarningAt

uwBans(o) == uwWarningCount(o) >= BanAtWarnings

\* the local document when user.save() is called
uwLocal(o, t) ==
    LET flagged == addFlag(o, "Warning")
        counted == [flagged EXCEPT !.warnings = @ + 1]
    IN IF uwBans(o)
       THEN addFlag([counted EXCEPT !.banUntil = <<t + UserBanHours>>,
                                    !.warnings = 0], "Temporary Ban")
       ELSE counted

\* a handler that sends the first-warning template for every decision
uwNotificationKeyAlwaysFirst(o) == "FIRST_WARNING"

uwNotificationKey(o) ==
    IF uwWarningCount(o) = 1 THEN "FIRST_WARNING"
    ELSE IF uwWarningCount(o) = 2 THEN "SECOND_WARNING"
    ELSE IF uwWarningCount(o) = FinalWarningAt THEN "FINAL_WARNING"
    ELSE IF uwBans(o) THEN "TEMPORARY_BAN"
    ELSE "undefined"

uwActionTaken(o) == IF uwBans(o) THEN "Temporary Ban" ELSE "Warning"

\* a handler that alerts the admins for a ban only
uwNotifiesAdminsOnBan(o) == uwBans(o)

uwNotifiesAdmins(o) == uwWarningCount(o) >= AdminAlertFrom

\* sendNotification: the notification is pushed on the stored document
sendNotification(st, key) ==
    IF key = "undefined" THEN st
    ELSE [st EXCEPT !.notifications = Append(@, [key |-> key, read |-> FALSE])]

\* the object handleUserWarning returns; banUntil is read off the local document
uwResult(o, t) ==
    [ success |-> TRUE,
      error |-> "none",
      warningCount |-> uwWarningCount(o),
      actionTaken |-> uwActionTaken(o),
      banUntil |-> uwLocal(o, t).banUntil ]

\* the stored document after a whole handleUserWarning call that nothing interleaves
userCall(d, t) ==
    sendNotification(save(d, d, uwLocal(d, t), uwBans(d)), uwNotificationKey(d))

NotFound == [success |-> FALSE, error |-> "User not found", warningCount |-> 0,
             actionTaken |-> "none", banUntil |-> NoBan]

\* One entry of the log: the operation, when it ran, the stored document
\* before and after it, what it returned, and whether it issued a ban,
\* sent the user a notification, or alerted the admins; fault names the step
\* of a handleUserWarning call that failed, ids the notifications that
\* markNotificationsAsRead was called with.
Entry(op, t, before, after, result, ban, notified, alerted) ==
    [op |-> op, at |-> t, before |-> before, after |-> after, result |-> result,
     ban |-> ban, notified |-> notified, alerted |-> alerted, fault |-> "none",
     ids |-> {}]

(***************************************************************************)
(* utils/notifications: sendNotification called on its own, with or        *)
(* without a copy by email                                                 *)
(***************************************************************************)
MaxNotifyOps == 3      \* calls of sendNotification in one behaviour

TemplateKeys == {"FIRST_WARNING", "SECOND_WARNING", "FINAL_WARNING",
                 "TEMPORARY_BAN", "ACCOUNT_UNBANNED", "HARASSMENT_DETECTED",
                 "WELCOME"}
\* the keys sendNotification is called with here; "UNKNOWN" has no template
NotifyKeys == {"ACCOUNT_UNBANNED", "WELCOME", "UNKNOWN"}

\* an email step that lets the failure of transporter.sendMail through
sendEmailNotificationThrows(mailOk) ==
    [delivered |-> mailOk, raised |-> ~mailOk]

\* sendEmailNotification: the failure of transporter.sendMail is caught and logged
sendEmailNotification(mailOk) ==
    [delivered |-> mailOk, raised |-> FALSE]

\* sendNotification(userId, templateKey, variables, sendEmail): the stored
\* document it leaves, what it returns, and what became of the email ("none"
\* when no email was tried)
sendNotificationCall(d, key, found, saveOk, sendEmail, hasEmail, mailOk) ==
    LET pushed == sendNotification(d, key)
        mail == sendEmailNotification(mailOk)
        outcome(after, returned, email) ==
            [doc |-> after, returned |-> returned, email |-> email]
    IN IF ~found \/ key \notin TemplateKeys THEN outcome(d, FALSE, "none")
       ELSE IF ~saveOk THEN outcome(d, FALSE, "none")
       ELSE IF ~(sendEmail /\ hasEmail) THEN outcome(pushed, TRUE, "none")
       ELSE IF mail.raised THEN outcome(pushed, FALSE, "email failed")
       ELSE outcome(pushed, TRUE,
                    IF mail.delivered THEN "email sent" ELSE "email failed")

\* what the call returned, and under actionTaken what became of the email
Notified(returned, email) ==
    [success |-> returned, error |-> "none", warningCount |-> 0,
     actionTaken |-> email, banUntil |-> NoBan]

SendNotification ==
    /\ snapshot = "User"
    /\ Len(log) < MaxNotifyOps
    /\ \E key \in NotifyKeys, found, saveOk, sendEmail, hasEmail, mailOk \in BOOLEAN :
         LET o == sendNotificationCall(doc, key, found, saveOk, sendEmail,
                                       hasEmail, mailOk) IN
         /\ doc' = o.doc
         /\ log' = Append(log, Entry("sendNotification", now, doc, o.doc,
                                     Notified(o.returned, o.email),
                                     FALSE, key, FALSE))
    /\ UNCHANGED <<snapshot, now, adminAlerts, doc0, procs>>
    /\ UNCHANGED <<modVars, reqVars>>

(***************************************************************************)
(* utils/notifications: handleUserWarning as a whole, with the steps that  *)
(* can fail                                                                *)
(***************************************************************************)
\* the one step of a call that fails, if any: user.save() of the handler,
\* User.findById or user.save() of sendNotification, transporter.sendMail of
\* sendEmailNotification, transporter.sendMail of notifyAdminsOfViolation
UWFaults == {"none", "save", "notifyFind", "notifySave", "email", "adminMail"}

\* a handler whose catch block sees every failure
uwRaisedByAnyFault(fault) == fault # "none"

\* the failures that reach the catch block of handleUserWarning:
\* sendNotification and notifyAdminsOfViolation catch their own
uwRaised(fault) == fault = "save"

Failed == [success |-> FALSE, error |-> "Failed to process warning",
           warningCount |-> 0, actionTaken |-> "none", banUntil |-> NoBan]

\* notifyAdminsOfViolation: one mail to the admins, lost if sendMail throws
notifyAdminsOfViolation(alerts, action, mailOk) ==
    IF mailOk THEN Append(alerts, action) ELSE alerts

\* one call of handleUserWarning for a user it found: the stored document and
\* the admin mails it leaves, what it returns, the template it asked
\* sendNotification for and whether it called notifyAdminsOfViolation
uwOutcome(d, alerts, t, fault) ==
    LET saved == fault # "save"
        written == IF saved THEN save(d, d, uwLocal(d, t), uwBans(d)) ELSE d
        key == IF saved THEN uwNotificationKey(d) ELSE "none"
        n == sendNotificationCall(written, key, fault # "notifyFind",
                                  fault # "notifySave", TRUE, TRUE,
                                  fault # "email")
        alerted == saved /\ uwNotifiesAdmins(d)
    IN [ doc |-> n.doc,
         alerts |-> IF alerted
                    THEN notifyAdminsOfViolation(alerts, uwActionTaken(d),
                                                 fault # "adminMail")
                    ELSE alerts,
         result |-> IF uwRaised(fault) THEN Failed ELSE uwResult(d, t),
         ban |-> saved /\ uwBans(d),
         notified |-> key,
         alerted |-> alerted ]

\* a call of handleUserWarning in which one of the steps in faults fails
UserWarning(faults) ==
    /\ snapshot = "User"
    /\ Len(log) < MaxOps
    /\ \E found \in BOOLEAN, fault \in faults :
         IF ~found
         THEN /\ fault = "none"
              /\ log' = Append(log, Entry("handleUserWarning", now, doc, doc,
                                          NotFound, FALSE, "none", FALSE))
              /\ UNCHANGED <<doc, adminAlerts>>
         ELSE LET o == uwOutcome(doc, adminAlerts, now, fault)
              IN /\ doc' = o.doc
                 /\ adminAlerts' = o.alerts
                 /\ log' = Append(log,
                        [Entry("handleUserWarning", now, doc, o.doc,
                               o.result, o.ban, o.notified, o.alerted)
                            EXCEPT !.fault = fault])
    /\ UNCHANGED <<snapshot, now, doc0, procs>>
    /\ UNCHANGED <<modVars, reqVars>>

HandleUserWarning == UserWarning(UWFaults)

\* a call of handleUserWarning in which nothing fails
HandleUserWarningNoFault == UserWarning({"none"})

Tick ==
    /\ now + TickHours <= MaxTime
    /\ now' = now + TickHours
    /\ UNCHANGED <<snapshot, doc, log, adminAlerts, doc0, procs>>
    /\ UNCHANGED <<modVars, reqVars>>

(***************************************************************************)
(* utils/notifications: markNotificationsAsRead, getUserNotifications.     *)
(* The _id of a notification is its position in the list; an id above the  *)
(* length of the list is the id of no notification.                        *)
(***************************************************************************)
MaxReadOps == 4        \* operations in one behaviour with the list read or marked

\* req.body.notificationIds: none, one id, or the first id and an unknown one
IdLists(d) ==
    LET unknown == Len(d.notifications) + 1
    IN {{}} \cup {{i} : i \in 1..unknown} \cup {{1, unknown}}

\* a marking that sets the read flag to whether the notification is listed
markNotificationsAsReadOnlyListed(d, ids, found, saveOk) ==
    IF ~found \/ ~saveOk THEN [doc |-> d, returned |-> FALSE]
    ELSE [doc |-> [d EXCEPT !.notifications =
                      [i \in 1..Len(@) |->
                          [@[i] EXCEPT !.read = (ids = {} \/ i \in ids)]]],
          returned |-> TRUE]

\* markNotificationsAsRead(userId, notificationIds): the stored document it
\* leaves and what it returns
markNotificationsAsRead(d, ids, found, saveOk) ==
    IF ~found \/ ~saveOk THEN [doc |-> d, returned |-> FALSE]
    ELSE [doc |-> [d EXCEPT !.notifications =
                      [i \in 1..Len(@) |->
                          IF ids = {} \/ i \in ids
                          THEN [@[i] EXCEPT !.read = TRUE] ELSE @[i]]],
          returned |-> TRUE]

\* markNotificationsRead of the controller: 400 MARK_READ_ERROR unless the
\* call returned true
MarkNotificationsAsRead ==
    /\ snapshot = "User"
    /\ Len(log) < MaxReadOps
    /\ \E ids \in IdLists(doc), found, saveOk \in BOOLEAN :
         LET o == markNotificationsAsRead(doc, ids, found, saveOk) IN
         /\ doc' = o.doc
         /\ log' = Append(log,
                [Entry("markNotificationsAsRead", now, doc, o.doc,
                       Notified(o.returned,
                                IF o.returned THEN "Notifications marked as read"
                                ELSE "MARK_READ_ERROR"),
                       FALSE, "none", FALSE)
                    EXCEPT !.ids = ids])
    /\ UNCHANGED <<snapshot, now, adminAlerts, doc0, procs>>
    /\ UNCHANGED <<modVars, reqVars>>

\* getUserNotifications(userId, 1, 10, unreadOnly): the page it returns,
\* newest first, and the count of unread notifications; the list is filtered
\* and sorted on the local document, which is not saved
getUserNotifications(d, unreadOnly, found) ==
    LET all == d.notifications
        kept == IF unreadOnly THEN SelectSeq(all, LAMBDA n : ~n.read) ELSE all
    IN [success |-> found,
        error |-> IF found THEN "none" ELSE "USER_NOT_FOUND",
        page |-> IF found
                 THEN [i \in 1..Len(kept) |-> kept[Len(kept) + 1 - i]] ELSE <<>>,
        unreadCount |-> IF found
                        THEN Len(SelectSeq(all, LAMBDA n : ~n.read)) ELSE 0]

GetUserNotifications ==
    /\ snapshot = "User"
    /\ Len(log) < MaxReadOps
    /\ \E unreadOnly, found \in BOOLEAN :
         log' = Append(log, Entry("getUserNotifications", now, doc, doc,
                                  getUserNotifications(doc, unreadOnly, found),
                                  FALSE, "none", FALSE))
    /\ UNCHANGED <<snapshot, now, doc, adminAlerts, doc0, procs>>
    /\ UNCHANGED <<modVars, reqVars>>

(***************************************************************************)
(* controller/feedback.controller: handleHarassmentWarning                 *)
(***************************************************************************)
BAN_DURATION_HOURS == 24
WARNING_THRESHOLD == 3

\* a handler that bans one warning late
hwBansLate(o) == o.warnings + 1 > WARNING_THRESHOLD

hwBans(o) == o.warnings + 1 >= WARNING_THRESHOLD

\* the local document when user.save() is called
hwLocal(o, t) ==
    IF hwBans(o)
    THEN [o EXCEPT !.banUntil = <<t + BAN_DURATION_HOURS>>, !.warnings = 0]
    ELSE [o EXCEPT !.warnings = @ + 1]

\* `Warning ${user.warnings}/${WARNING_THRESHOLD}`, `Banned for ${...} hours`
hwActionTaken(o) ==
    IF hwBans(o)
    THEN "Banned for " \o ToString(BAN_DURATION_HOURS) \o " hours"
    ELSE "Warning " \o ToString(o.warnings + 1) \o "/" \o ToString(WARNING_THRESHOLD)

Banned == [success |-> FALSE, error |-> "User is temporarily banned",
           warningCount |-> 0, actionTaken |-> "none", banUntil |-> NoBan]

\* the object handleHarassmentWarning returns for a user it found not banned
hwResult(o, t) ==
    [ success |-> TRUE,
      error |-> "none",
      warningCount |-> o.warnings + 1,
      actionTaken |-> hwActionTaken(o),
      banUntil |-> IF hwBans(o) THEN hwLocal(o, t).banUntil ELSE NoBan ]

\* the early return of handleHarassmentWarning for a banned user
hwRejects(o, t) == isBanned(o, t)

\* the stored document after a whole handleHarassmentWarning call that nothing
\* interleaves
adminCall(d, t) ==
    IF hwRejects(d, t) THEN d ELSE save(d, d, hwLocal(d, t), hwBans(d))

HandleHarassmentWarning ==
    /\ snapshot = "Admin"
    /\ Len(log) < MaxOps
    /\ \E found \in BOOLEAN :
         IF ~found
         THEN /\ log' = Append(log, Entry("handleHarassmentWarning", now, doc, doc,
                                          NotFound, FALSE, "none", FALSE))
              /\ doc' = doc
         ELSE IF hwRejects(doc, now)
         THEN /\ log' = Append(log, Entry("handleHarassmentWarning", now, doc, doc,
                                          Banned, FALSE, "none", FALSE))
              /\ doc' = doc
         ELSE LET after == adminCall(doc, now)
              IN /\ doc' = after
                 /\ log' = Append(log,
                        Entry("handleHarassmentWarning", now, doc, after,
                              hwResult(doc, now), hwBans(doc), "none", FALSE))
    /\ UNCHANGED <<snapshot, now, adminAlerts, doc0, procs>>
    /\ UNCHANGED <<modVars, reqVars>>

(***************************************************************************)
(* controller/auth.controller: banUser, unbanUser, issueWarning            *)
(***************************************************************************)
IssueWarningBanAt == 3     \* if (user.warnings >= 3)
IssueWarningBanHours == 24 \* setHours(getHours() + 24)
MaxAdminOps == 3           \* admin operations in one behaviour

AdminOps == {"banUser", "unbanUser", "issueWarning"}
AdminOpsDone == Cardinality({i \in 1..Len(log) : log[i].op \in AdminOps})

\* req.body.duration, in hours
Durations == {0, UserBanHours}

Done(msg) == [success |-> TRUE, error |-> "none", warningCount |-> 0,
              actionTaken |-> msg, banUntil |-> NoBan]

\* Admin.findByIdAndUpdate(userId, { banUntil, $push: { banHistory } })
banUserUpdate(d, t, duration) == [d EXCEPT !.banUntil = <<t + duration>>]

BanUser ==
    /\ snapshot = "Admin"
    /\ Len(log) < MaxOps /\ AdminOpsDone < MaxAdminOps
    /\ \E duration \in Durations :
         /\ doc' = banUserUpdate(doc, now, duration)
         /\ log' = Append(log, Entry("banUser", now, doc, doc',
                                     Done("User banned successfully"),
                                     TRUE, "none", FALSE))
    /\ UNCHANGED <<snapshot, now, adminAlerts, doc0, procs>>
    /\ UNCHANGED <<modVars, reqVars>>

\* an unban that also clears the warning count
unbanUserClearsWarnings(d) == [d EXCEPT !.banUntil = NoBan, !.warnings = 0]

\* Admin.findByIdAndUpdate(userId, { banUntil: null })
unbanUserUpdate(d) == [d EXCEPT !.banUntil = NoBan]

UnbanUser ==
    /\ snapshot = "Admin"
    /\ Len(log) < MaxOps /\ AdminOpsDone < MaxAdminOps
    /\ doc' = unbanUserUpdate(doc)
    /\ log' = Append(log, Entry("unbanUser", now, doc, doc',
                                Done("User unbanned successfully"),
                                FALSE, "none", FALSE))
    /\ UNCHANGED <<snapshot, now, adminAlerts, doc0, procs>>
    /\ UNCHANGED <<modVars, reqVars>>

iwBans(o) == o.warnings + 1 >= IssueWarningBanAt

\* the local document when issueWarning calls user.save()
iwLocal(o, t) ==
    IF iwBans(o)
    THEN [o EXCEPT !.banUntil = <<t + IssueWarningBanHours>>, !.warnings = 0]
    ELSE [o EXCEPT !.warnings = @ + 1]

IssueWarning ==
    /\ snapshot = "Admin"
    /\ Len(log) < MaxOps /\ AdminOpsDone < MaxAdminOps
    /\ doc' = save(doc, doc, iwLocal(doc, now), iwBans(doc))
    /\ log' = Append(log, Entry("issueWarning", now, doc, doc',
                                Done("Warning issued successfully"),
                                iwBans(doc), "none", FALSE))
    /\ UNCHANGED <<snapshot, now, adminAlerts, doc0, procs>>
    /\ UNCHANGED <<modVars, reqVars>>

(***************************************************************************)
(* routes/admin.routes: login, refresh, logout of one admin.  A refresh    *)
(* token is jwt.sign of { id, username } with the second it was issued in  *)
(* (iat) and the expiry that follows from it: it is modelled as <<iat>>,   *)
(* and no token as <<>>.  The 24 hours of a token are not counted: whether *)
(* jwt.verify accepts a token is an input.                                 *)
(***************************************************************************)
MaxSeconds == 1        \* seconds that pass in one behaviour
MaxLogins == 2         \* logins in one behaviour
MaxSessionReqs == 4    \* requests to the admin routes in one behaviour
MaxRefreshCalls == 3   \* refresh calls the client makes for one request

NoToken == <<>>

\* jwt.sign({ id, username }, JWT_REFRESH_SECRET, { expiresIn: "24h" })
signRefreshToken(sec) == <<sec>>

\* what a route answered: the status, whether an access token was sent, the
\* refresh token stored afterwards, and the cookie the response leaves
\* (cookie is the one presented when the response sets or clears none)
Answer(status, access, stored, cookie) ==
    [status |-> status, access |-> access, stored |-> stored, cookie |-> cookie]

\* POST /admin/login
adminLogin(stored, cookie, sec, credentials) ==
    IF credentials = "missing" THEN Answer(400, FALSE, stored, cookie)
    ELSE IF credentials = "wrong" THEN Answer(401, FALSE, stored, cookie)
    ELSE Answer(200, TRUE, signRefreshToken(sec), signRefreshToken(sec))

\* POST /admin/refresh
adminRefresh(stored, cookie, verified) ==
    IF cookie = NoToken THEN Answer(401, FALSE, stored, cookie)
    ELSE IF ~verified \/ stored # cookie THEN Answer(401, FALSE, stored, cookie)
    ELSE Answer(200, TRUE, stored, cookie)

\* POST /admin/logout
adminLogout(stored, cookie, verified, saveOk) ==
    IF cookie = NoToken THEN Answer(204, FALSE, stored, cookie)
    ELSE IF ~verified THEN Answer(403, FALSE, stored, NoToken)
    ELSE IF stored # cookie THEN Answer(204, FALSE, stored, NoToken)
    ELSE IF ~saveOk THEN Answer(403, FALSE, stored, NoToken)
    ELSE Answer(204, FALSE, NoToken, NoToken)

NoSession ==
    [stored |-> NoToken, sec |-> 0, logins |-> <<>>, revoked |-> {}, reqs |-> 0,
     last |-> [op |-> "none", token |-> NoToken, status |-> 0, access |-> FALSE]]

\* the refresh tokens a request can carry: none, or one that a login issued
Presented == {NoToken} \cup {admin.logins[i] : i \in 1..Len(admin.logins)}

\* the admin record after a route answered o to a request carrying cookie:
\* logins holds the tokens issued, in order; revoked the tokens carried by a
\* logout answered 204 since the last login
Recorded(op, cookie, o) ==
    [admin EXCEPT
        !.stored = o.stored,
        !.reqs = @ + 1,
        !.logins = IF op = "login" /\ o.status = 200 THEN Append(@, o.stored) ELSE @,
        !.revoked = IF op = "login" /\ o.status = 200 THEN {}
                    ELSE IF op = "logout" /\ o.status = 204 /\ cookie # NoToken
                    THEN @ \cup {cookie}
                    ELSE @,
        !.last = [op |-> op, token |-> cookie, status |-> o.status,
                  access |-> o.access]]

\* a request from the browser carries the cookie of the browser, and the
\* response sets or clears it; a request from elsewhere carries any token
AdminLogin ==
    /\ admin.reqs < MaxSessionReqs
    /\ Len(admin.logins) < MaxLogins
    /\ \E credentials \in {"ok", "wrong", "missing"}, browser \in BOOLEAN :
         LET o == adminLogin(admin.stored, client.cookie, admin.sec, credentials) IN
         /\ admin' = Recorded("login", NoToken, o)
         /\ client' = IF browser THEN [client EXCEPT !.cookie = o.cookie,
                                                      !.token = @ \/ o.access]
                      ELSE client
    /\ UNCHANGED <<modVars, enfVars, feedbacks, reqCount, lastReq>>

AdminRefresh ==
    /\ admin.reqs < MaxSessionReqs
    /\ \E cookie \in Presented, verified \in BOOLEAN :
         admin' = Recorded("refresh", cookie,
                           adminRefresh(admin.stored, cookie, verified))
    /\ UNCHANGED <<modVars, enfVars, feedbacks, reqCount, lastReq, client>>

AdminLogout ==
    /\ admin.reqs < MaxSessionReqs
    /\ \E browser, verified, saveOk \in BOOLEAN :
       \E cookie \in IF browser THEN {client.cookie} ELSE Presented :
         LET o == adminLogout(admin.stored, cookie, verified, saveOk) IN
         /\ admin' = Recorded("logout", cookie, o)
         /\ client' = IF browser THEN [client EXCEPT !.cookie = o.cookie]
                      ELSE client
    /\ UNCHANGED <<modVars, enfVars, feedbacks, reqCount, lastReq>>

SecondPasses ==
    /\ admin.sec < MaxSeconds
    /\ admin' = [admin EXCEPT !.sec = @ + 1]
    /\ UNCHANGED <<modVars, enfVars, feedbacks, reqCount, lastReq, client>>

(***************************************************************************)
(* api/axios: the response interceptor of the admin API client.  The       *)
(* request in flight is at level 0 when it is the request of the caller    *)
(* and at level n + 1 when it is the refresh call made by the interceptor  *)
(* for the 401 of the request at level n, whose promise waits for it.      *)
(***************************************************************************)
ClientIdle ==
    [pc |-> "idle", level |-> 0, refreshes |-> 0, retries |-> 0,
     token |-> FALSE, cookie |-> NoToken]

\* the client after the request in flight was answered with status (0 when
\* no response came): pc is "first" for a request whose config has no _retry,
\* "resend" for one sent again, "done" when the promise of the caller is
\* resolved, "failed" when it is rejected, "login" when it is rejected after
\* the catch block removed the access token and set window.location
interceptor(c, status) ==
    LET \* the new token is stored and the request below is sent again:
        \* `return API(originalRequest)`
        resend == [c EXCEPT !.pc = "resend", !.level = @ - 1, !.token = TRUE,
                            !.refreshes = IF c.level > 1 THEN @ + 1 ELSE @,
                            !.retries = IF c.level = 1 THEN @ + 1 ELSE @]
    IN IF status \in {200, 201, 204}
       THEN IF c.level = 0 THEN [c EXCEPT !.pc = "done"] ELSE resend
       ELSE IF status = 401 /\ c.pc = "first"
       THEN [c EXCEPT !.pc = "first", !.level = @ + 1, !.refreshes = @ + 1]
       ELSE IF c.level = 0 THEN [c EXCEPT !.pc = "failed"]
       ELSE [c EXCEPT !.pc = "login", !.level = 0, !.token = FALSE]

InFlight == client.pc \in {"first", "resend"}

\* the caller sends a request through API
ClientRequest ==
    /\ ~InFlight
    /\ client' = [client EXCEPT !.pc = "first", !.level = 0, !.refreshes = 0,
                                !.retries = 0]
    /\ UNCHANGED <<modVars, enfVars, feedbacks, reqCount, lastReq, admin>>

\* the request of the caller is answered by the route it was sent to
ClientAnswered ==
    /\ InFlight /\ client.level = 0
    /\ \E status \in {200, 401, 500} : client' = interceptor(client, status)
    /\ UNCHANGED <<modVars, enfVars, feedbacks, reqCount, lastReq, admin>>

\* a refresh call of the interceptor is answered by POST /admin/refresh, or
\* gets no response
ClientRefreshAnswered ==
    /\ InFlight /\ client.level > 0
    /\ \E verified, answered \in BOOLEAN :
         LET o == adminRefresh(admin.stored, client.cookie, verified)
             next == interceptor(client, IF answered THEN o.status ELSE 0)
         IN /\ next.refreshes <= MaxRefreshCalls
            /\ client' = next
            /\ admin' = IF answered
                        THEN [Recorded("refresh", client.cookie, o)
                                 EXCEPT !.reqs = admin.reqs]
                        ELSE admin
    /\ UNCHANGED <<modVars, enfVars, feedbacks, reqCount, lastReq>>

(***************************************************************************)
(* HTTP requests: what the last answered request was and did               *)
(***************************************************************************)
\* warningResult = null
NoWarning == [success |-> FALSE, error |-> "none", warningCount |-> 0,
              actionTaken |-> "none", banUntil |-> NoBan]

Request(op, s, t, status, code, stored, moderated, warning, before, after) ==
    [op |-> op, text |-> s, at |-> t, status |-> status, code |-> code,
     stored |-> stored, moderated |-> moderated, warning |-> warning,
     before |-> before, after |-> after, valid |-> TRUE]

NoRequest ==
    Request("none", <<>>, 0, 0, "none", FALSE, FALSE, NoWarning, FreshUser, FreshUser)

ReqIdle ==
    /\ feedbacks = 0
    /\ reqCount = 0
    /\ lastReq = NoRequest
    /\ admin = NoSession
    /\ client = ClientIdle

(***************************************************************************)
(* Specification of the enforcement operations, called one after another   *)
(***************************************************************************)
Snapshots == {"User", "Admin"}

InitEnf ==
    /\ snapshot \in Snapshots
    /\ now = 0
    /\ doc = FreshUser
    /\ doc0 = FreshUser
    /\ log = <<>>
    /\ adminAlerts = <<>>
    /\ procs = <<>>
    /\ ReqIdle
    /\ variant = "pipeline"
    /\ cfg = [persp |-> FALSE, openai |-> FALSE]
    /\ text = <<>>
    /\ mpc = "done"
    /\ calls = <<>>
    /\ outcomes = <<>>
    /\ responses = <<>>
    /\ ruleRan = FALSE
    /\ verdict = NoVerdict

NextEnf ==
    \/ HandleUserWarningNoFault
    \/ HandleHarassmentWarning
    \/ BanUser
    \/ UnbanUser
    \/ IssueWarning
    \/ Tick

SpecEnf == InitEnf /\ [][NextEnf]_vars

(***************************************************************************)
(* Specification of concurrent handler invocations for one user.  Each     *)
(* invocation is a process; a step runs from one await to the next.        *)
(***************************************************************************)
Procs == 1..NumProcs

handlerCall(snap, d, t) == IF snap = "User" THEN userCall(d, t) ELSE adminCall(d, t)

\* the stored document after n handler calls made one after another
RECURSIVE Sequential(_, _, _, _)
Sequential(snap, d, t, n) ==
    IF n = 0 THEN d ELSE Sequential(snap, handlerCall(snap, d, t), t, n - 1)

SetPc(p, pc) == [procs EXCEPT ![p].pc = pc]

\* const user = await User.findById(userId)
UWFind(p) ==
    /\ snapshot = "User"
    /\ procs[p].pc = "idle"
    /\ procs' = [procs EXCEPT ![p] = [pc |-> "found", orig |-> doc]]
    /\ UNCHANGED <<snapshot, now, doc, log, adminAlerts, doc0>>
    /\ UNCHANGED <<modVars, reqVars>>

\* addFlag, the escalation and await user.save()
UWSave(p) ==
    /\ snapshot = "User"
    /\ procs[p].pc = "found"
    /\ doc' = save(doc, procs[p].orig, uwLocal(procs[p].orig, now),
                   uwBans(procs[p].orig))
    /\ procs' = SetPc(p, "saved")
    /\ UNCHANGED <<snapshot, now, log, adminAlerts, doc0>>
    /\ UNCHANGED <<modVars, reqVars>>

\* await sendNotification(userId, notificationKey, variables, true)
UWNotify(p) ==
    /\ snapshot = "User"
    /\ procs[p].pc = "saved"
    /\ doc' = sendNotification(doc, uwNotificationKey(procs[p].orig))
    /\ procs' = SetPc(p, "notified")
    /\ UNCHANGED <<snapshot, now, log, adminAlerts, doc0>>
    /\ UNCHANGED <<modVars, reqVars>>

\* notifyAdminsOfViolation when serious, and the return
UWReturn(p) ==
    /\ snapshot = "User"
    /\ procs[p].pc = "notified"
    /\ LET o == procs[p].orig IN
         /\ adminAlerts' = IF uwNotifiesAdmins(o)
                           THEN Append(adminAlerts, uwActionTaken(o))
                           ELSE adminAlerts
         /\ log' = Append(log, Entry("handleUserWarning", now, o, doc,
                                     uwResult(o, now), uwBans(o),
                                     uwNotificationKey(o), uwNotifiesAdmins(o)))
    /\ procs' = SetPc(p, "done")
    /\ UNCHANGED <<snapshot, now, doc, doc0>>
    /\ UNCHANGED <<modVars, reqVars>>

\* const user = await Admin.findById(userId)
HWFind(p) ==
    /\ snapshot = "Admin"
    /\ procs[p].pc = "idle"
    /\ procs' = [procs EXCEPT ![p] = [pc |-> "found", orig |-> doc]]
    /\ UNCHANGED <<snapshot, now, doc, log, adminAlerts, doc0>>
    /\ UNCHANGED <<modVars, reqVars>>

\* the ban check, the escalation, await user.save() and the return
HWSave(p) ==
    /\ snapshot = "Admin"
    /\ procs[p].pc = "found"
    /\ LET o == procs[p].orig IN
         IF hwRejects(o, now)
         THEN /\ doc' = doc
              /\ log' = Append(log, Entry("handleHarassmentWarning", now, o, doc,
                                          Banned, FALSE, "none", FALSE))
         ELSE /\ doc' = save(doc, o, hwLocal(o, now), hwBans(o))
              /\ log' = Append(log, Entry("handleHarassmentWarning", now, o, doc',
                                          hwResult(o, now), hwBans(o), "none", FALSE))
    /\ procs' = SetPc(p, "done")
    /\ UNCHANGED <<snapshot, now, adminAlerts, doc0>>
    /\ UNCHANGED <<modVars, reqVars>>

InitConc ==
    /\ snapshot \in Snapshots
    /\ now = 0
    /\ \E k \in 0..PriorCalls : doc = Sequential(snapshot, FreshUser, 0, k)
    /\ doc0 = doc
    /\ log = <<>>
    /\ adminAlerts = <<>>
    /\ procs = [p \in Procs |-> [pc |-> "idle", orig |-> FreshUser]]
    /\ ReqIdle
    /\ variant = "pipeline"
    /\ cfg = [persp |-> FALSE, openai |-> FALSE]
    /\ text = <<>>
    /\ mpc = "done"
    /\ calls = <<>>
    /\ outcomes = <<>>
    /\ responses = <<>>
    /\ ruleRan = FALSE
    /\ verdict = NoVerdict

NextConc ==
    \E p \in Procs :
        \/ UWFind(p)
        \/ UWSave(p)
        \/ UWNotify(p)
        \/ UWReturn(p)
        \/ HWFind(p)
        \/ HWSave(p)

SpecConc == InitConc /\ [][NextConc]_vars

(***************************************************************************)
(* Feedback submission: POST /feedback of routes/feedback (moderated       *)
(* route) and submitFeedback of controller/feedback.controller             *)
(* (validateFeedback, handleValidationErrors, submitFeedbackHandler)       *)
(***************************************************************************)
MaxReqs == 4              \* requests in one behaviour
MaxRouteReqs == 2         \* requests to the moderated route in one behaviour
MinFeedbackLength == 10   \* .isLength({ min: 10 })

\* String.prototype.trim and the .trim() sanitizer of express-validator
Trim(s) ==
    IF IsBlank(s) THEN <<>>
    ELSE LET solid == {i \in 1..Len(s) : s[i] \notin WhitespaceChars}
             first == CHOOSE i \in solid : \A j \in solid : i <= j
             last == CHOOSE i \in solid : \A j \in solid : j <= i
         IN SubSeq(s, first, last)

\* a handler that never sees a missing text
textMissingNever(s) == FALSE

\* if (!text)
textMissing(s) == Len(s) = 0

\* validateFeedback: body("text").trim().notEmpty().isLength({ min: 10 })
validateFeedback(s) == Len(Trim(s)) > 0 /\ Len(Trim(s)) >= MinFeedbackLength

\* categorize: the model's answer, "Other" when the request to OpenAI failed
Categories == {"Harassment", "Other"}
categorize(r) == IF r = "error" THEN "Other" ELSE r

\* getAnalysisResults: the cached category, or else the result of categorize
getAnalysisResults(cached, r) == IF cached # "none" THEN cached ELSE categorize(r)

SaveFailed == [success |-> FALSE, error |-> "Failed to process harassment warning",
               warningCount |-> 0, actionTaken |-> "none", banUntil |-> NoBan]

\* handleHarassmentWarning: the stored document it leaves and what it returns
hwOutcome(d, t, found, saveOk) ==
    IF ~found THEN [doc |-> d, result |-> NotFound]
    ELSE IF hwRejects(d, t) THEN [doc |-> d, result |-> Banned]
    ELSE IF ~saveOk THEN [doc |-> d, result |-> SaveFailed]
    ELSE [doc |-> adminCall(d, t), result |-> hwResult(d, t)]

\* one adapter call of a whole run of moderateFeedback
adapterResult(v, c, a, rp, ro) ==
    IF a = "Perspective" THEN perspectiveModeration(v, c, rp)
    ELSE IF v = "openaiOnly" THEN openAIOnlyRequest(ro)
    ELSE openAIModeration(v, c, ro)

\* moderateFeedback(text) from call to return, the Perspective request ending
\* with rp and the OpenAI request with ro: the last step taken
moderateRun(v, c, s, rp, ro) ==
    LET st0 == moderateStart(v, c, s)
        st1 == afterAdapter(v, c, s, 1, st0.adapter,
                            adapterResult(v, c, st0.adapter, rp, ro))
        st2 == afterAdapter(v, c, s, 2, st1.adapter,
                            adapterResult(v, c, st1.adapter, rp, ro))
    IN IF st0.op # "call" THEN st0
       ELSE IF st1.op # "call" THEN st1
       ELSE st2

\* a route that stores the feedback whatever the verdict
routeOutcomeIgnoresVerdict(v, c, s, rp, ro, saveOk) ==
    LET m == moderateRun(v, c, s, rp, ro)
        answer(status, code, stored, moderated, vd) ==
            [status |-> status, code |-> code, stored |-> stored,
             moderated |-> moderated, verdict |-> vd, emailed |-> stored]
    IN IF textMissing(s)
       THEN answer(400, "Text is required", FALSE, FALSE, NoVerdict)
       ELSE IF m.op = "throw"
       THEN answer(400, "OpenAI API key not set", FALSE, TRUE, NoVerdict)
       ELSE IF ~saveOk THEN answer(400, "save failed", FALSE, TRUE, m.verdict)
       ELSE answer(201, "none", TRUE, TRUE, m.verdict)

\* router.post("/") of the moderated route: status, error, whether the
\* feedback was saved, whether moderateFeedback was called and what it
\* returned, and whether the mail to the admin was tried
routeOutcome(v, c, s, rp, ro, saveOk) ==
    LET m == moderateRun(v, c, s, rp, ro)
        answer(status, code, stored, moderated, vd) ==
            [status |-> status, code |-> code, stored |-> stored,
             moderated |-> moderated, verdict |-> vd, emailed |-> stored]
    IN IF textMissing(s)
       THEN answer(400, "Text is required", FALSE, FALSE, NoVerdict)
       ELSE IF m.op = "throw"
       THEN answer(400, "OpenAI API key not set", FALSE, TRUE, NoVerdict)
       ELSE IF m.verdict = UndefinedResult
       THEN answer(400, "TypeError", FALSE, TRUE, m.verdict)
       ELSE IF m.verdict.flagged
       THEN answer(400, "Feedback flagged as inappropriate by AI moderation.",
                   FALSE, TRUE, m.verdict)
       ELSE IF ~saveOk THEN answer(400, "save failed", FALSE, TRUE, m.verdict)
       ELSE answer(201, "none", TRUE, TRUE, m.verdict)

SubTexts ==
    { <<>>, <<" ">>, <<"d", "i", "e">>,
      Rep(MinFeedbackLength - 1, "a"),
      <<" ">> \o Rep(MinFeedbackLength - 1, "a") \o <<" ">>,
      <<"g","r","e","a","t"," ","j","o","b","!">> }

\* answers of the Perspective API tried by the submission route
RoutePerspective ==
    {PerspectiveFailure} \cup
    [status : {"ok"}, tox : {0, ToxicityChain + 1}, severe : {0}, threat : {0}]

\* who submits: nobody logged in, a user whose document is gone, a user
Submitters == {"anonymous", "missing", "present"}
\* which save fails, if any
SaveFailures == {"none", "feedback", "user"}

RoutePost ==
    /\ snapshot = "User"
    /\ reqCount < MaxRouteReqs
    /\ \E s \in SubTexts, saveOk \in BOOLEAN, rp \in RoutePerspective,
          ro \in OpenAIResponses \cup {"error"} :
         \E o \in {routeOutcome(variant, cfg, s, rp, ro, saveOk)} :
         /\ feedbacks' = IF o.stored THEN feedbacks + 1 ELSE feedbacks
         /\ verdict' = o.verdict
         /\ adminAlerts' = IF o.emailed
                           THEN Append(adminAlerts, "New Feedback Submitted")
                           ELSE adminAlerts
         /\ lastReq' = Request("routePost", s, now, o.status, o.code, o.stored,
                               o.moderated, NoWarning, doc, doc)
    /\ reqCount' = reqCount + 1
    /\ UNCHANGED <<variant, cfg, text, mpc, calls, outcomes, responses, ruleRan>>
    /\ UNCHANGED <<admin, client>>
    /\ UNCHANGED <<snapshot, now, doc, log, doc0, procs>>

\* validateFeedback, handleValidationErrors, submitFeedbackHandler: status,
\* code, whether the feedback was saved, whether the text was analysed, the
\* stored user document, the warning result and whether the admins were mailed
submitOutcome(d, t, s, authed, found, saveOk, userSaveOk, category) ==
    LET w == IF authed /\ category = "Harassment"
             THEN hwOutcome(d, t, found, userSaveOk)
             ELSE [doc |-> d, result |-> NoWarning]
        answer(status, code, stored, analysed, after, warning, alert) ==
            [status |-> status, code |-> code, stored |-> stored,
             moderated |-> analysed, doc |-> after, warning |-> warning,
             alert |-> alert]
    IN IF ~validateFeedback(s)
       THEN answer(400, "VALIDATION_ERROR", FALSE, FALSE, d, NoWarning, FALSE)
       ELSE IF textMissing(Trim(s))
       THEN answer(400, "MISSING_TEXT", FALSE, FALSE, d, NoWarning, FALSE)
       ELSE IF ~saveOk
       THEN answer(500, "SUBMISSION_ERROR", FALSE, TRUE, d, NoWarning, FALSE)
       ELSE IF w.result.error # "none"
       THEN answer(400, w.result.error, TRUE, TRUE, w.doc, w.result, FALSE)
       ELSE answer(201, "none", TRUE, TRUE, w.doc, w.result,
                   category = "Harassment")

SubmitFeedback ==
    /\ snapshot = "Admin"
    /\ reqCount < MaxReqs
    /\ \E s \in SubTexts, who \in Submitters, fails \in SaveFailures,
          cached \in {"none", "Harassment"}, r \in Categories \cup {"error"} :
         \E o \in {submitOutcome(doc, now, s, who # "anonymous", who = "present",
                                  fails # "feedback", fails # "user",
                                  getAnalysisResults(cached, r))} :
         /\ feedbacks' = IF o.stored THEN feedbacks + 1 ELSE feedbacks
         /\ doc' = o.doc
         /\ adminAlerts' = IF o.alert
                           THEN Append(adminAlerts, "Harassment Feedback Detected")
                           ELSE adminAlerts
         /\ lastReq' = Request("submitFeedback", s, now, o.status, o.code,
                               o.stored, o.moderated, o.warning, doc, o.doc)
    /\ reqCount' = reqCount + 1
    /\ UNCHANGED <<snapshot, now, log, doc0, procs>>
    /\ UNCHANGED <<modVars, admin, client>>

\* the moderated route and the controller belong to different snapshots
InitSub ==
    /\ snapshot \in Snapshots
    /\ IF snapshot = "User"
       THEN variant \in AllVariants /\ cfg \in Configs
       ELSE variant = "pipeline" /\ cfg = [persp |-> FALSE, openai |-> FALSE]
    /\ text = <<>>
    /\ mpc = "done"
    /\ calls = <<>>
    /\ outcomes = <<>>
    /\ responses = <<>>
    /\ ruleRan = FALSE
    /\ verdict = NoVerdict
    /\ now = 0
    /\ doc = FreshUser
    /\ doc0 = FreshUser
    /\ log = <<>>
    /\ adminAlerts = <<>>
    /\ procs = <<>>
    /\ ReqIdle

NextSub == RoutePost \/ SubmitFeedback

SpecSub == InitSub /\ [][NextSub]_vars

(***************************************************************************)
(* Admission of a user: userLogin (controller/auth.controller) and the     *)
(* middleware verifyUserToken and checkIfBanned (middleware/auth)          *)
(***************************************************************************)
\* a ban that holds for as long as banUntil is set
banUntilSet(d, t) == d.banUntil # NoBan

\* user.banUntil && user.banUntil > new Date()
banUntilAhead(d, t) == d.banUntil # NoBan /\ d.banUntil[1] > t

\* user.isBanned of the User model
userIsBanned(d, t) == d.banUntil # NoBan /\ d.banUntil[1] > t

\* the answer to a request for admission; valid: the credentials or the token
\* are those of an existing, active user
Admission(op, t, d, valid, status, code) ==
    [Request(op, <<>>, t, status, code, FALSE, FALSE, NoWarning, d, d)
        EXCEPT !.valid = valid]

\* userLogin, for a request that carries an email and a password
userLoginOutcome(d, t, valid, active) ==
    IF ~valid THEN [status |-> 401, code |-> "INVALID_CREDENTIALS"]
    ELSE IF ~active THEN [status |-> 403, code |-> "ACCOUNT_DEACTIVATED"]
    ELSE IF userIsBanned(d, t) THEN [status |-> 403, code |-> "ACCOUNT_BANNED"]
    ELSE [status |-> 200, code |-> "Login successful"]

\* verifyUserToken, for a request that carries a bearer token
verifyUserTokenOutcome(d, t, valid, active) ==
    IF ~valid THEN [status |-> 403, code |-> "INVALID_TOKEN"]
    ELSE IF banUntilAhead(d, t) THEN [status |-> 403, code |-> "ACCOUNT_BANNED"]
    ELSE IF ~active THEN [status |-> 403, code |-> "ACCOUNT_DEACTIVATED"]
    ELSE [status |-> 200, code |-> "next"]

\* checkIfBanned, behind the token middleware; found: Admin.findById finds
\* the user
checkIfBannedOutcome(d, t, found) ==
    IF found /\ banUntilAhead(d, t)
    THEN [status |-> 403,
          code |-> "You are temporarily banned from submitting feedback."]
    ELSE [status |-> 200, code |-> "next"]

UserLogin ==
    /\ snapshot = "User"
    /\ reqCount < MaxReqs
    /\ \E valid, active \in BOOLEAN :
         LET o == userLoginOutcome(doc, now, valid, active) IN
         lastReq' = Admission("userLogin", now, doc, valid /\ active,
                              o.status, o.code)
    /\ reqCount' = reqCount + 1
    /\ UNCHANGED <<feedbacks, modVars, enfVars, admin, client>>

VerifyUserToken ==
    /\ snapshot = "User"
    /\ reqCount < MaxReqs
    /\ \E valid, active \in BOOLEAN :
         LET o == verifyUserTokenOutcome(doc, now, valid, active) IN
         lastReq' = Admission("verifyUserToken", now, doc, valid /\ active,
                              o.status, o.code)
    /\ reqCount' = reqCount + 1
    /\ UNCHANGED <<feedbacks, modVars, enfVars, admin, client>>

CheckIfBanned ==
    /\ snapshot = "Admin"
    /\ reqCount < MaxReqs
    /\ \E found \in BOOLEAN :
         LET o == checkIfBannedOutcome(doc, now, found) IN
         lastReq' = Admission("checkIfBanned", now, doc, found, o.status, o.code)
    /\ reqCount' = reqCount + 1
    /\ UNCHANGED <<feedbacks, modVars, enfVars, admin, client>>

\* violations and the passing of time, with requests for admission in between
NextAuth ==
    \/ HandleUserWarningNoFault
    \/ HandleHarassmentWarning
    \/ Tick
    \/ UserLogin
    \/ VerifyUserToken
    \/ CheckIfBanned

SpecAuth == InitEnf /\ [][NextAuth]_vars

\* notifications sent on their own, between violations
InitNotify == InitEnf /\ snapshot = "User"

NextNotify == HandleUserWarningNoFault \/ SendNotification

SpecNotify == InitNotify /\ [][NextNotify]_vars

\* violations of one user, in each of which one step may fail, some time
\* after the account was made
NextFault ==
    \/ HandleUserWarning
    \/ Tick /\ log = <<>>

SpecFault == InitNotify /\ [][NextFault]_vars

\* notifications sent to one user, listed and marked read
NextRead == SendNotification \/ MarkNotificationsAsRead \/ GetUserNotifications

SpecRead == InitNotify /\ [][NextRead]_vars

\* the admin routes, called by the browser through the API client and by
\* other holders of a refresh token
NextSess ==
    \/ AdminLogin
    \/ AdminRefresh
    \/ AdminLogout
    \/ SecondPasses
    \/ ClientRequest
    \/ ClientAnswered
    \/ ClientRefreshAnswered

SpecSess == InitNotify /\ [][NextSess]_vars

(***************************************************************************)
(* Specification of the moderation pipeline: one invocation of             *)
(* moderateFeedback for every variant, configuration and text.             *)
(***************************************************************************)
EnfIdle ==
    /\ snapshot = "User"
    /\ now = 0
    /\ doc = FreshUser
    /\ doc0 = FreshUser
    /\ log = <<>>
    /\ adminAlerts = <<>>
    /\ procs = <<>>
    /\ ReqIdle

InitMod ==
    /\ variant \in Variants
    /\ cfg \in Configs
    /\ text \in Texts
    /\ mpc = "start"
    /\ calls = <<>>
    /\ outcomes = <<>>
    /\ responses = <<>>
    /\ ruleRan = FALSE
    /\ verdict = NoVerdict
    /\ EnfIdle

NextMod == ModerateFeedback \/ PerspectiveReturns \/ OpenAIReturns

SpecMod == InitMod /\ [][NextMod]_vars

\* the same, every snapshot of moderateFeedback included
InitModAll ==
    /\ variant \in AllVariants
    /\ cfg \in Configs
    /\ text \in Texts
    /\ mpc = "start"
    /\ calls = <<>>
    /\ outcomes = <<>>
    /\ responses = <<>>
    /\ ruleRan = FALSE
    /\ verdict = NoVerdict
    /\ EnfIdle

SpecModAll == InitModAll /\ [][NextMod]_vars

(***************************************************************************)
(* Properties of the moderation pipeline (SpecMod)                         *)
(***************************************************************************)
PrimaryEnded == Len(outcomes) >= 1
BothConfigured == cfg.persp /\ cfg.openai
Configured(a) == IF a = "Perspective" THEN cfg.persp ELSE cfg.openai

\* C1: a text that contains a configured bad word (case-insensitive substring)
\* is returned flagged by the local rule filter, and no adapter is called for
\* it, whatever providers are configured.
C1_BadWordStaysLocal ==
    containsBadWords(text, badWords(variant)) =>
        /\ calls = <<>>
        /\ mpc = "done" => /\ verdict.flagged
                           /\ verdict.provider = "Rule-based Filter"

\* C2: once the primary adapter's call has ended: if it ended in an error and a
\* secondary adapter is configured, the secondary (the other adapter) has been
\* called exactly once; if it ended with a verdict, flagged or clean, or no
\* secondary is configured, no second call is made.
C2_SecondaryOnlyOnFailure ==
    /\ Len(calls) <= 2
    /\ PrimaryEnded =>
         IF outcomes[1] = "error" /\ BothConfigured
         THEN Len(calls) = 2 /\ calls[2] # calls[1]
         ELSE Len(calls) = 1

C2_Witness ==
    /\ variant = "pipeline"
    /\ mpc = "done"
    /\ Len(calls) = 2
    /\ outcomes = <<"error", "clean">>

\* C9: the first call goes to Perspective when it is configured and to OpenAI
\* when only OpenAI is configured; with one adapter configured there is no
\* second call; only configured adapters are called; a second call is made
\* only after the first one failed, and to the other adapter.
C9_PrimarySelection ==
    /\ \A i \in 1..Len(calls) : Configured(calls[i])
    /\ Len(calls) >= 1 =>
         calls[1] = IF cfg.persp THEN "Perspective" ELSE "OpenAI"
    /\ ~BothConfigured => Len(calls) <= 1
    /\ Len(calls) >= 2 =>
         /\ Len(calls) = 2
         /\ outcomes[1] = "error"
         /\ calls[2] # calls[1]

C9_Witness ==
    /\ variant = "pipeline"
    /\ mpc = "done"
    /\ ~cfg.persp /\ cfg.openai
    /\ calls = <<"OpenAI">>
    /\ outcomes = <<"flagged">>

\* C10: for empty or whitespace-only text the local rule filter is not run and
\* no adapter is called, and the returned verdict is unflagged, whatever
\* providers are configured.
C10_BlankTextReturnsAtOnce ==
    IsBlank(text) =>
        /\ ~ruleRan
        /\ calls = <<>>
        /\ mpc = "done" => ~verdict.flagged /\ verdict = EmptyVerdict

C10_Witness ==
    /\ variant = "pipeline"
    /\ mpc = "done"
    /\ Len(text) > 0 /\ IsBlank(text)
    /\ BothConfigured
    /\ verdict = EmptyVerdict

\* C11: with no provider credential set, a text that passes the local rule
\* filter is returned unflagged as "Rule-based only" with no adapter call; and
\* an adapter whose credential is missing is never called.
C11_NoProviderRuleBasedOnly ==
    /\ \A i \in 1..Len(calls) : Configured(calls[i])
    /\ (/\ variant = "pipeline"
        /\ ~cfg.persp /\ ~cfg.openai
        /\ ~IsBlank(text)
        /\ ~ruleFlagged(text, BadWordsPipeline)) =>
           /\ calls = <<>>
           /\ mpc = "done" => /\ verdict = RuleOnlyVerdict
                              /\ ~verdict.flagged
                              /\ ruleRan

C11_Witness ==
    /\ variant = "pipeline"
    /\ ~cfg.persp /\ ~cfg.openai
    /\ mpc = "done"
    /\ Len(text) > 0 /\ ~IsBlank(text)
    /\ ruleRan
    /\ verdict = RuleOnlyVerdict

\* C12: moderateFeedback never throws to its caller and what it returns is a
\* verdict, whatever the adapters answer; when every adapter it called ended in
\* an error and the local rule filter did not flag the text, the verdict is
\* unflagged.
C12_AlwaysReturnsVerdict ==
    /\ mpc # "raised"
    /\ mpc = "done" =>
         /\ verdict # UndefinedResult
         /\ (/\ Len(outcomes) >= 1
             /\ \A i \in 1..Len(outcomes) : outcomes[i] = "error"
             /\ ~(ruleRan /\ ruleFlagged(text, badWords(variant)))) =>
                ~verdict.flagged

Awaiting == mpc \in {"awaitPerspective", "awaitOpenAI"}

\* C13: within one invocation each adapter is called at most once, so at most
\* two calls are made; at most one call is in flight at any time, and the
\* second call is made only once the first has ended.
C13_OneAttemptPerAdapter ==
    /\ Len(calls) <= 2
    /\ \A i, j \in 1..Len(calls) : i # j => calls[i] # calls[j]
    /\ Len(calls) = Len(outcomes) + (IF Awaiting THEN 1 ELSE 0)
    /\ Len(calls) = 2 => Len(outcomes) >= 1

C13_Witness ==
    /\ variant = "pipeline"
    /\ mpc = "done"
    /\ calls = <<"Perspective", "OpenAI">>
    /\ outcomes = <<"error", "error">>
    /\ verdict = CleanVerdict

\* the adapter calls that ended with a verdict
Answered ==
    {i \in 1..Len(outcomes) : i <= Len(responses) /\ outcomes[i] # "error"}

\* the verdict of openAIModeration is that of results[0].flagged
OpenAIAsFlagged ==
    \A i \in Answered :
        responses[i].adapter = "OpenAI" =>
            (outcomes[i] = "flagged") = (responses[i].body = "flagged")

\* C28 (as claimed): the verdict of perspectiveModeration is flagged exactly
\* when the score of toxicity, severe toxicity or threat is above 0.5 (a score
\* of 0.5 does not flag), and the verdict of openAIModeration is the flagged
\* boolean of the provider.
C28_Claimed ==
    /\ OpenAIAsFlagged
    /\ \A i \in Answered :
          responses[i].adapter = "Perspective" =>
              LET r == responses[i].body IN
              (outcomes[i] = "flagged") =
                  (r.tox > 50 \/ r.severe > 50 \/ r.threat > 50)

\* C28 (amended): as claimed for the perspectiveModeration of the moderation
\* pipeline; that of the fallback chain flags exactly when toxicity is above
\* 0.7 or severe toxicity is above 0.5, and does not read the threat score.
C28_FlaggedAboveThreshold ==
    /\ OpenAIAsFlagged
    /\ \A i \in Answered :
          responses[i].adapter = "Perspective" =>
              LET r == responses[i].body IN
              (outcomes[i] = "flagged") =
                  IF variant = "chain"
                  THEN r.tox > 70 \/ r.severe > 50
                  ELSE r.tox > 50 \/ r.severe > 50 \/ r.threat > 50

C28_Witness ==
    /\ variant = "chain" /\ mpc = "done"
    /\ Len(responses) = 1
    /\ responses[1].adapter = "Perspective"
    /\ responses[1].body.tox = 51 /\ responses[1].body.severe = 50
    /\ responses[1].body.threat = 71
    /\ outcomes = <<"clean">>
    /\ ~verdict.flagged

(***************************************************************************)
(* Properties of feedback submission (SpecSub)                             *)
(***************************************************************************)
\* C14: a submission through submitFeedback whose text passes validation and
\* whose Feedback document is saved is answered 201, whatever the category
\* analysis and the violation handler (user not found, user banned, save of
\* the user failed) come to.
C14_FailuresNeverBlock ==
    (/\ lastReq.op = "submitFeedback"
     /\ validateFeedback(lastReq.text)
     /\ lastReq.code # "SUBMISSION_ERROR") =>
        /\ lastReq.stored
        /\ lastReq.status = 201

\* C20: a submission with empty text is answered 400, without moderateFeedback
\* or the category analysis being run and without a Feedback document being
\* stored.
C20_EmptyTextRejected ==
    (lastReq.op \in {"routePost", "submitFeedback"} /\ Len(lastReq.text) = 0) =>
        /\ lastReq.status = 400
        /\ ~lastReq.moderated
        /\ ~lastReq.stored

C20_Witness ==
    /\ lastReq.op = "routePost"
    /\ lastReq.text = <<>>
    /\ lastReq.status = 400
    /\ lastReq.code = "Text is required"
    /\ feedbacks = 0

\* C29: submitFeedback answers 201 exactly when it saved the Feedback
\* document; a request answered with an error status, the 400 for "User not
\* found" and "User is temporarily banned" included, saved none.
C29_SuccessIffStored ==
    lastReq.op = "submitFeedback" =>
        /\ (lastReq.status = 201) = lastReq.stored
        /\ lastReq.warning.error \in {"User not found", "User is temporarily banned"}
               => lastReq.status = 400 /\ ~lastReq.stored

(***************************************************************************)
(* Properties of the admission of a user (SpecAuth)                        *)
(***************************************************************************)
AdmissionOps == {"userLogin", "verifyUserToken", "checkIfBanned"}
BanCodes == {"ACCOUNT_BANNED",
             "You are temporarily banned from submitting feedback."}

C21_FlaggedIsBlocked ==
    /\ snapshot = "User" => Len(adminAlerts) = feedbacks
    /\ (/\ lastReq.op = "routePost" /\ lastReq.moderated
        /\ verdict \notin {NoVerdict, UndefinedResult}) =>
           IF verdict.flagged
           THEN /\ lastReq.status = 400
                /\ lastReq.code =
                       "Feedback flagged as inappropriate by AI moderation."
                /\ ~lastReq.stored
           ELSE lastReq.code # "save failed" =>
                    lastReq.stored /\ lastReq.status = 201

C21_Witness ==
    /\ lastReq.op = "routePost"
    /\ verdict.flagged /\ verdict.provider = "Perspective API"
    /\ lastReq.status = 400
    /\ feedbacks = 1 /\ Len(adminAlerts) = 1 /\ reqCount = 2

(***************************************************************************)
(* Properties of the enforcement operations called one after another       *)
(* (SpecEnf)                                                               *)
(***************************************************************************)
Handlers == {"handleUserWarning", "handleHarassmentWarning"}

\* the first k operations were calls of a violation handler that found the
\* user and whose save of the record did not fail
HandlerRun(k) ==
    \A j \in 1..k :
        /\ log[j].op \in Handlers
        /\ log[j].result.error \notin {"User not found", "Failed to process warning"}

\* what the k-th of four violations in a row by a fresh user is to yield
FourStrikes(k, e) ==
    IF k <= 3
    THEN /\ e.result.success /\ ~e.ban
         /\ e.result.warningCount = k
         /\ e.after.warnings = k
         /\ e.after.banUntil = NoBan
         /\ e.alerted = (k = 3)
    ELSE /\ e.result.success /\ e.ban
         /\ e.result.banUntil = <<e.at + 24>>
         /\ e.after.banUntil = <<e.at + 24>>
         /\ e.after.warnings = 0
         /\ e.alerted

C6_BannedCallChangesNothing ==
    \A k \in 1..Len(log) :
        (log[k].op \in Handlers /\ isBanned(log[k].before, log[k].at)) =>
            /\ ~log[k].result.success
            /\ log[k].after = log[k].before

\* C7: the stored warning count stays within 0..3; every operation that issues
\* a ban (sets banUntil to a time still ahead) leaves it at 0, and no operation
\* that issues no ban lowers it.
C7_CountResetExactlyOnBan ==
    /\ doc.warnings \in 0..3
    /\ \A k \in 1..Len(log) :
         /\ (log[k].ban /\ isBanned(log[k].after, log[k].at)) =>
                log[k].after.warnings = 0
         /\ log[k].after.warnings < log[k].before.warnings => log[k].ban

CountOf(h, action) == Cardinality({i \in 1..Len(h) : h[i] = action})

\* C8: every accepted violation appends exactly one flag entry, with the action
\* of the decision returned for the call; after four violations in a row by a
\* fresh user the history holds 3 Warning entries and 1 Temporary Ban entry.
C8_OneFlagPerViolation ==
    \A k \in 1..Len(log) :
        (log[k].op = "handleUserWarning" /\ log[k].result.success) =>
            /\ Len(log[k].after.flagHistory) = Len(log[k].before.flagHistory) + 1
            /\ log[k].after.flagHistory[Len(log[k].after.flagHistory)] =
                   log[k].result.actionTaken
            /\ (k = 4 /\ HandlerRun(4)) =>
                   /\ Len(log[k].after.flagHistory) = 4
                   /\ CountOf(log[k].after.flagHistory, "Warning") = 3
                   /\ CountOf(log[k].after.flagHistory, "Temporary Ban") = 1

\* C15: unbanUser leaves banUntil null whether or not it was in the future,
\* leaves the warning count as it was, and a second unbanUser right after the
\* first leaves the stored document as the first left it.
C15_UnbanIdempotent ==
    \A k \in 1..Len(log) :
        log[k].op = "unbanUser" =>
            /\ log[k].after.banUntil = NoBan
            /\ log[k].after.warnings = log[k].before.warnings
            /\ (k > 1 /\ log[k - 1].op = "unbanUser") =>
                   log[k].after = log[k - 1].after

C15_Witness ==
    \E k \in 2..Len(log) :
        /\ log[k].op = "unbanUser" /\ log[k - 1].op = "unbanUser"
        /\ isBanned(log[k - 1].before, log[k - 1].at)
        /\ log[k - 1].before.warnings > 0
        /\ doc = log[k - 1].after

\* C16: every successful unbanUser appends an ACCOUNT_UNBANNED notification to
\* the notification list of the user.
C16_UnbanNotifies ==
    \A k \in 1..Len(log) :
        (log[k].op = "unbanUser" /\ log[k].result.success) =>
            /\ Len(log[k].after.notifications) =
                   Len(log[k].before.notifications) + 1
            /\ log[k].after.notifications[Len(log[k].after.notifications)].key =
                   "ACCOUNT_UNBANNED"

\* C17: whenever an operation sets banUntil to a date, the date is strictly
\* later than the time of the operation.
C17_BanUntilInFuture ==
    \A k \in 1..Len(log) :
        (log[k].ban /\ log[k].after.banUntil # NoBan) =>
            log[k].after.banUntil[1] > log[k].at

\* C19 (SpecNotify): when sendNotification is called with sendEmail true and
\* the email cannot be sent, the notification is appended to the stored
\* document all the same and the call returns true.
C19_EmailFailureKeepsNotification ==
    \A k \in 1..Len(log) :
        (/\ log[k].op = "sendNotification"
         /\ log[k].result.actionTaken = "email failed") =>
            /\ log[k].result.success
            /\ log[k].after.notifications =
                   Append(log[k].before.notifications,
                          [key |-> log[k].notified, read |-> FALSE])

C19_Witness ==
    \E k \in 1..Len(log) :
        /\ log[k].op = "sendNotification"
        /\ log[k].result.actionTaken = "email failed"
        /\ log[k].result.success
        /\ log[k].notified = "ACCOUNT_UNBANNED"
        /\ Len(doc.notifications) > Len(log[k].before.notifications)

\* C22: in handleHarassmentWarning (for a user found and not banned) and in
\* issueWarning, the call that raises the warning count to 3 sets banUntil to
\* 24 hours after the call and stores a count of 0; a call that raises the
\* count to less than 3 only stores the raised count.
ThreeStrikeOps ==
    {i \in 1..Len(log) :
        \/ log[i].op = "issueWarning"
        \/ log[i].op = "handleHarassmentWarning" /\ log[i].result.success}

C22_ThirdWarningBans ==
    \A i \in ThreeStrikeOps :
        IF log[i].before.warnings + 1 = 3
        THEN /\ log[i].ban
             /\ log[i].after.banUntil = <<log[i].at + 24>>
             /\ log[i].after.warnings = 0
        ELSE /\ log[i].before.warnings + 1 < 3
             /\ ~log[i].ban
             /\ log[i].after.banUntil = log[i].before.banUntil
             /\ log[i].after.warnings = log[i].before.warnings + 1

C22_Witness ==
    \E i, j \in ThreeStrikeOps :
        /\ log[i].op = "handleHarassmentWarning" /\ log[j].op = "issueWarning"
        /\ log[i].before.warnings = 2 /\ log[i].after.warnings = 0
        /\ log[i].after.banUntil = <<log[i].at + 24>>
        /\ j < i /\ log[j].after.warnings = log[j].before.warnings + 1

(***************************************************************************)
(* Properties of handleUserWarning when a step fails (SpecFault)            *)
(***************************************************************************)
\* the calls of handleUserWarning, and those that made a decision
UserWarnings == {i \in 1..Len(log) : log[i].op = "handleUserWarning"}
Decisions == {i \in UserWarnings : log[i].result.success}

\* C24: handleUserWarning calls notifyAdminsOfViolation exactly for the
\* decisions whose new warning count is 3 and for those that issue a ban, not
\* for the counts 1 and 2 nor for a call that makes no decision; each such
\* call whose mail does not fail leaves one alert mail.
C24_AdminAlertFromFinalWarning ==
    /\ \A i \in UserWarnings :
          log[i].alerted =
              (/\ log[i].result.success
               /\ log[i].result.warningCount = 3 \/ log[i].ban)
    /\ \A i \in Decisions :
          log[i].result.warningCount \in {1, 2} => ~log[i].alerted /\ ~log[i].ban
    /\ snapshot = "User" =>
          Len(adminAlerts) =
              Cardinality({i \in UserWarnings :
                              log[i].alerted /\ log[i].fault # "adminMail"})

C24_Witness ==
    \E i, j, k \in Decisions :
        /\ log[i].result.warningCount = 1 /\ ~log[i].alerted
        /\ log[j].result.warningCount = 3 /\ log[j].alerted /\ ~log[j].ban
        /\ log[k].ban /\ log[k].alerted
        /\ adminAlerts = <<"Warning", "Temporary Ban">>

\* the template that matches a decision
TemplateOf(e) ==
    IF e.ban THEN "TEMPORARY_BAN"
    ELSE IF e.result.warningCount = 1 THEN "FIRST_WARNING"
    ELSE IF e.result.warningCount = 2 THEN "SECOND_WARNING"
    ELSE IF e.result.warningCount = 3 THEN "FINAL_WARNING"
    ELSE "none"

Appended(e) ==
    SubSeq(e.after.notifications, Len(e.before.notifications) + 1,
           Len(e.after.notifications))

DeliveryFaults == {"notifyFind", "notifySave", "email", "adminMail"}

C26_DeliveryFailureKeepsDecision ==
    \A i \in UserWarnings :
        log[i].fault \in DeliveryFaults =>
            LET e == log[i]
                count == e.before.warnings + 1
                written == save(e.before, e.before, uwLocal(e.before, e.at),
                                count >= 4)
            IN /\ e.result.success
               /\ e.result.warningCount = count
               /\ e.result.actionTaken =
                      IF count >= 4 THEN "Temporary Ban" ELSE "Warning"
               /\ e.after.warnings = IF count >= 4 THEN 0 ELSE count
               /\ e.after.banUntil =
                      IF count >= 4 THEN <<e.at + 24>> ELSE e.before.banUntil
               /\ e.after.flagHistory = written.flagHistory
               /\ Len(e.after.flagHistory) > Len(e.before.flagHistory)

C26_Witness ==
    \E i, j \in Decisions :
        /\ log[i].fault = "notifySave" /\ log[i].ban
        /\ log[i].after.notifications = log[i].before.notifications
        /\ doc.warnings = 0 /\ doc.banUntil = <<log[i].at + 24>>
        /\ log[j].fault = "adminMail" /\ log[j].alerted
        /\ adminAlerts = <<"Temporary Ban">>

(***************************************************************************)
(* Properties of the notification list (SpecRead)                          *)
(***************************************************************************)
\* C27: no operation removes a notification from the stored list or changes
\* the template of one; a notification that is read stays read;
\* markNotificationsAsRead with an empty id list marks every notification read,
\* and with a non-empty list marks the listed ones and leaves the others as
\* they were.
C27_NotificationsOnlyGrow ==
    \A k \in 1..Len(log) :
        LET b == log[k].before.notifications
            a == log[k].after.notifications
        IN /\ Len(a) >= Len(b)
           /\ \A i \in 1..Len(b) :
                 a[i].key = b[i].key /\ (b[i].read => a[i].read)
           /\ (log[k].op = "markNotificationsAsRead" /\ log[k].result.success) =>
                 /\ Len(a) = Len(b)
                 /\ \A i \in 1..Len(b) :
                       a[i].read = (b[i].read \/ log[k].ids = {} \/ i \in log[k].ids)

C27_Witness ==
    /\ Len(log) = 4
    /\ log[3].op = "markNotificationsAsRead" /\ log[3].ids = {1, 3}
    /\ log[3].after.notifications[1].read /\ ~log[3].after.notifications[2].read
    /\ log[4].op = "markNotificationsAsRead" /\ log[4].ids = {2}
    /\ Len(doc.notifications) = 2
    /\ doc.notifications[1].read /\ doc.notifications[2].read

(***************************************************************************)
(* Properties of the admin session (SpecSess)                              *)
(***************************************************************************)
Rejected == admin.last.status = 401 /\ ~admin.last.access

\* a refresh that carries a token a logout answered 204 to, with no login
\* since, is answered 401 without an access token
LogoutRevokes ==
    (admin.last.op = "refresh" /\ admin.last.token \in admin.revoked) => Rejected

\* a refresh that carries a token issued by a login before the last one is
\* answered 401 without an access token
LoginReplaces ==
    (/\ admin.last.op = "refresh"
     /\ \E i \in 1..(Len(admin.logins) - 1) : admin.logins[i] = admin.last.token)
        => Rejected

\* C23: after a logout answered 204, POST /admin/refresh with the refresh
\* token of that logout is answered 401 and issues no access token until the
\* admin logs in again; and after a login, POST /admin/refresh with a refresh
\* token issued by an earlier login is answered 401.
C23_LogoutInvalidatesRefresh == LogoutRevokes /\ LoginReplaces

\* C30: for one request of the caller the interceptor makes at most one
\* refresh call and sends the request again at most once; a refresh call
\* answered 401 is followed by no further refresh call.
C30_OneRefreshPerRequest ==
    /\ client.refreshes <= 1
    /\ client.retries <= 1
    /\ InFlight => client.level <= 1

(***************************************************************************)
(* Properties of concurrent handler invocations (SpecConc)                 *)
(***************************************************************************)
AllDone == \A p \in Procs : procs[p].pc = "done"

BanDecisions == Cardinality({i \in 1..Len(log) : log[i].ban})

BanNotices(d) ==
    Cardinality({i \in 1..Len(d.notifications) :
                    d.notifications[i].key = "TEMPORARY_BAN"})

\* C4: two concurrent handler calls for a user whose stored warning count is 3
\* and who is not banned make one temporary-ban transition: one ban decision
\* and one ban notification.
C4_OneBanForConcurrentCalls ==
    (AllDone /\ NumProcs = 2 /\ doc0.warnings = 3 /\ ~isBanned(doc0, now)) =>
        /\ BanDecisions = 1
        /\ BanNotices(doc) = BanNotices(doc0) + 1

\* C5: when all concurrent handler calls for the user have returned, the stored
\* warning count, banUntil and flag history length are those of the same calls
\* made one after another.
C5_ConcurrentCallsSerialize ==
    AllDone =>
        LET serial == Sequential(snapshot, doc0, now, NumProcs) IN
        /\ doc.warnings = serial.warnings
        /\ doc.banUntil = serial.banUntil
        /\ Len(doc.flagHistory) = Len(serial.flagHistory)

====
